---- MODULE Spec2Model ----
(***************************************************************************)
(* The active-news read API (backend/src/db/queries.ts and the router that *)
(* serves POST /api/v1/news) and the display client (frontend/src/App.tsx) *)
(* that fetches from it and from the external workflow webhook.            *)
(*                                                                         *)
(* JavaScript values are modelled as follows.  A JSON value is a record    *)
(* tagged by t: "null", "undefined", "obj" (an object with the six keys    *)
(* the code reads; a key that is absent holds Undef) or "invalid" (a body  *)
(* that is not JSON).  A string-valued property is a string; Undef stands  *)
(* for the JavaScript value undefined and "" is the empty string, both     *)
(* falsy.  A React state cell of type string | null holds a string or Null.*)
(***************************************************************************)
EXTENDS Integers, Sequences, FiniteSets, TLC

\* ------------------------------------------------------------------ bounds
\* fetch calls issued by one component instance (the mount's and the clicks')
MaxRequests == 2
\* distinct wall-clock readings new Date() can return
MaxClock == 1
\* POST requests the service is handling at once in ServerSpec
MaxConcurrent == 2

\* ------------------------------------------------------------- state
VARIABLES
  store,          \* the daily_news_art table
  inflight,       \* the requests issued and not yet settled
  newsData, loading, error, lastUpdated, loadingMessage, isStaticMode,  \* useState cells
  imgSrc,         \* the src of the rendered <img>, Null when none is rendered
  timer,          \* the live intervals of the rotation effect, each its messageIndex
  phase,          \* "initial" (rendered, effects not run), "mounted", "unmounted"
  issued,         \* fetch() calls made so far
  userTriggers,   \* clicks on the two buttons so far
  last,           \* the last step the client took, the request it settled and
                  \* the entry displayed before it
  lastRead        \* the result getActiveNews last resolved with since the last write

vars == <<store, inflight, newsData, loading, error, lastUpdated, loadingMessage,
          isStaticMode, imgSrc, timer, phase, issued, userTriggers, last, lastRead>>

\* ------------------------------------------------------------ JS values
Null == "null"
Undef == "undefined"
JNull == [t |-> "null"]
JInvalid == [t |-> "invalid"]

EmptyObj ==
  [t |-> "obj", getActiveNews |-> [t |-> "undefined"], headline |-> Undef,
   description |-> Undef, image_url |-> Undef, imageUrl |-> Undef, error |-> Undef]

\* JavaScript truthiness of a string-or-undefined property
TruthyLeaf(s) == s # Undef /\ s # ""
\* JavaScript truthiness of a JSON value (objects are truthy, null/undefined not)
TruthyValue(v) == v.t = "obj"
\* b || a: the operands the other way round
OrLeaf_CamelFirst(a, b) == IF TruthyLeaf(b) THEN b ELSE a
\* a || b on string-or-undefined properties
OrLeaf(a, b) == IF TruthyLeaf(a) THEN a ELSE b

Ok(v) == [t |-> "ok", value |-> v]
Throw(m) == [t |-> "throw", message |-> m]

\* ------------------------------------------------------------- the store
\* daily_news_art rows; the table is abstracted to the set of its distinct
\* (headline, description, image_url, is_active) tuples
Contents ==
  { [headline |-> "X", description |-> "Y", image_url |-> "Z.png"],
    [headline |-> "P", description |-> "Q", image_url |-> ""] }

Rows ==
  { [headline |-> c.headline, description |-> c.description,
     image_url |-> c.image_url, is_active |-> a] : c \in Contents, a \in BOOLEAN }

Stores == SUBSET Rows

\* messages of the errors prisma can throw (connection failure, query error)
FaultMessages == {"db down", "query error"}

\* select: { headline, description, image_url }
Select(row) ==
  [EmptyObj EXCEPT !.headline = row.headline, !.description = row.description,
                   !.image_url = row.image_url]

\* a filter that lets every row through
ActiveRows_All(rows) == rows

\* where: { is_active: true }
ActiveRows(rows) == {r \in rows : r.is_active}

\* findFirst with the where clause left out
FindFirst_NoWhere(rows) ==
  IF rows = {} THEN {JNull} ELSE {Select(r) : r \in rows}

\* a lookup that gives up when more than one row matches
FindFirst_NullOnTie(rows) ==
  IF Cardinality(ActiveRows(rows)) # 1 THEN {JNull} ELSE {Select(r) : r \in ActiveRows(rows)}

\* prisma.daily_news_art.findFirst without orderBy: null when nothing matches,
\* otherwise the projection of a matching row, which one is not defined
FindFirst(rows) ==
  IF ActiveRows(rows) = {} THEN {JNull} ELSE {Select(r) : r \in ActiveRows(rows)}

\* db.getActiveNews(): resolves with findFirst's result or rejects with a fault
GetActiveNewsOutcomes(rows) ==
  {Ok(v) : v \in FindFirst(rows)} \cup {Throw(m) : m \in FaultMessages}

\* a router that answers 404 when there is no active entry
RouterResponse_NotFound(outcome) ==
  IF outcome.t = "ok" /\ outcome.value.t = "obj"
  THEN [t |-> "response", status |-> 200,
        body |-> [EmptyObj EXCEPT !.getActiveNews = outcome.value]]
  ELSE IF outcome.t = "ok"
  THEN [t |-> "response", status |-> 404,
        body |-> [EmptyObj EXCEPT !.error = "No active news"]]
  ELSE [t |-> "response", status |-> 500,
        body |-> [EmptyObj EXCEPT !.error = outcome.message]]

\* res.json({ getActiveNews }) / res.status(500).json({ error: error.message })
RouterResponse(outcome) ==
  IF outcome.t = "ok"
  THEN [t |-> "response", status |-> 200,
        body |-> [EmptyObj EXCEPT !.getActiveNews = outcome.value]]
  ELSE [t |-> "response", status |-> 500,
        body |-> [EmptyObj EXCEPT !.error = outcome.message]]

\* ------------------------------------------------------------ the client
LOADING_MESSAGES ==
  << "Waking up free-tier servers...", "Analyzing global news sources...",
     "Consulting with AI agent...", "Evaluating headline impact...",
     "Checking 7-day memory buffer...", "Generating visual description...",
     "Creating artistic representation...", "Uploading to cloud storage...",
     "Finalizing selection...", "Almost there..." >>

\* an error message that leaves the status out
HttpErrorMessage_NoStatus(status) == "HTTP error!"

\* new Error(`HTTP error! status: ${response.status}`).message
HttpErrorMessage(status) == "HTTP error! status: " \o ToString(status)

\* the TypeError of reading property key of null
NullReadMessage(key) == "Cannot read properties of null (reading '" \o key \o "')"

\* the SyntaxError response.json() rejects with on a body that is not JSON
SyntaxErrorMessage == "Unexpected token '<', \"<!DOCTYPE \"... is not valid JSON"

\* the TypeError fetch() rejects with when the request cannot be completed
FetchFailedMessage == "Failed to fetch"

\* new Date().toLocaleString() at clock reading now
ToLocaleString(now) == "11/5/2026, 9:00:0" \o ToString(now) \o " AM"

\* response.ok
ResponseOk(resp) == resp.status >= 200 /\ resp.status <= 299

\* the object handed to setNewsData
View(h, d, u) == [headline |-> h, description |-> d, imageUrl |-> u]

\* fetchStaticNews without the fallback to the bare object
StaticNormalize_NoFallback(data) ==
  IF data.t # "obj" \/ data.getActiveNews.t # "obj"
  THEN Throw(NullReadMessage("headline"))
  ELSE Ok(View(data.getActiveNews.headline, data.getActiveNews.description,
               OrLeaf(data.getActiveNews.image_url, data.getActiveNews.imageUrl)))

\* fetchStaticNews reading the camel-case key only
StaticNormalize_CamelOnly(data) ==
  IF data.t # "obj"
  THEN Throw(NullReadMessage("getActiveNews"))
  ELSE LET newsItem == IF TruthyValue(data.getActiveNews) THEN data.getActiveNews ELSE data
       IN Ok(View(newsItem.headline, newsItem.description, newsItem.imageUrl))

\* fetchStaticNews, from `const newsItem = data.getActiveNews || data` to the
\* argument of setNewsData; data is the parsed body
StaticNormalize(data) ==
  IF data.t # "obj"
  THEN Throw(NullReadMessage("getActiveNews"))
  ELSE LET newsItem == IF TruthyValue(data.getActiveNews) THEN data.getActiveNews ELSE data
       IN Ok(View(newsItem.headline, newsItem.description,
                  OrLeaf(newsItem.image_url, newsItem.imageUrl)))

\* fetchDynamicNews merging the payload into the entry on display
DynamicNormalize_Merge(data) ==
  IF data.t # "obj"
  THEN Throw(NullReadMessage("headline"))
  ELSE LET new == View(data.headline, data.description,
                       OrLeaf(data.image_url, data.imageUrl))
           old == IF newsData = JNull THEN View(Undef, Undef, Undef) ELSE newsData
       IN Ok(View(IF new.headline = Undef THEN old.headline ELSE new.headline,
                  IF new.description = Undef THEN old.description ELSE new.description,
                  IF new.imageUrl = Undef THEN old.imageUrl ELSE new.imageUrl))

\* fetchDynamicNews reading the camel-case key only
DynamicNormalize_CamelOnly(data) ==
  IF data.t # "obj"
  THEN Throw(NullReadMessage("headline"))
  ELSE Ok(View(data.headline, data.description, data.imageUrl))

\* fetchDynamicNews: the argument of setNewsData; data is the parsed body
DynamicNormalize(data) ==
  IF data.t # "obj"
  THEN Throw(NullReadMessage("headline"))
  ELSE Ok(View(data.headline, data.description, OrLeaf(data.image_url, data.imageUrl)))

\* a try block that rejects a payload with a missing field
FetchOutcome_Validating(kind, resp) ==
  IF resp.t = "reject" THEN Throw(resp.message)
  ELSE IF ~ResponseOk(resp) THEN Throw(HttpErrorMessage(resp.status))
  ELSE IF resp.body.t = "invalid" THEN Throw(SyntaxErrorMessage)
  ELSE LET out == IF kind = "static" THEN StaticNormalize(resp.body)
                  ELSE DynamicNormalize(resp.body)
       IN IF out.t = "ok" /\ (\/ out.value.headline = Undef
                              \/ out.value.description = Undef
                              \/ out.value.imageUrl = Undef)
          THEN Throw("Malformed payload")
          ELSE out

\* the try block of fetchStaticNews / fetchDynamicNews once fetch() has settled
\* with resp: Ok(view) when it runs to its end, Throw(message) when it throws
FetchOutcome(kind, resp) ==
  IF resp.t = "reject" THEN Throw(resp.message)
  ELSE IF ~ResponseOk(resp) THEN Throw(HttpErrorMessage(resp.status))
  ELSE IF resp.body.t = "invalid" THEN Throw(SyntaxErrorMessage)
  ELSE IF kind = "static" THEN StaticNormalize(resp.body)
  ELSE DynamicNormalize(resp.body)

\* the data URI the onError handler of the <img> puts in its src
PLACEHOLDER_SRC == "data:image/svg+xml,...Image failed to load..."

\* the src of the <img> the component renders: there is one when loading is
\* false and newsData?.imageUrl is truthy
RenderedImage(isLoading, data) ==
  IF ~isLoading /\ data # JNull /\ TruthyLeaf(data.imageUrl) THEN data.imageUrl ELSE Null

\* no interval is live
NoTimer == <<>>

\* the effect's cleanup: clearInterval of the interval that effect run created
ClearInterval(t) == IF t = <<>> THEN t ELSE SubSeq(t, 1, Len(t) - 1)

\* an effect whose cleanup forgets the interval
RotateEffect_NoCleanup(before, after, t) ==
  IF before = after THEN t
  ELSE IF after THEN Append(t, 0)
  ELSE t

\* the useEffect on [loading]: a change to true starts an interval with
\* messageIndex = 0, a change to false runs the cleanup (clearInterval)
RotateEffect(before, after, t) ==
  IF before = after THEN t
  ELSE IF after THEN Append(t, 0)
  ELSE ClearInterval(t)

\* what the endpoints other than this repository's router can answer, and the
\* ways a fetch can fail: the webhook, a deployment returning the bare object
Item(h, d, su, cu) ==
  [EmptyObj EXCEPT !.headline = h, !.description = d, !.image_url = su, !.imageUrl = cu]

Reply(status, body) == [t |-> "response", status |-> status, body |-> body]

ExternalResponses ==
  { [t |-> "reject", message |-> FetchFailedMessage],
    Reply(500, [EmptyObj EXCEPT !.error = "db down"]),
    Reply(404, JInvalid),
    Reply(200, JInvalid),
    Reply(200, JNull),
    Reply(200, Item("X", "Y", Undef, "Z.png")),
    Reply(200, Item("P", "Q", Undef, "")),
    Reply(200, Item("A", "B", Undef, "C.png")),
    Reply(200, Item("A", "B", "Z.png", "C.png")),
    Reply(200, Item("P", "Q", "", "C.png")),
    Reply(200, Item("A", Undef, Undef, Undef)),
    Reply(200, [EmptyObj EXCEPT !.getActiveNews = Item("X", "Y", "Z.png", Undef)]),
    Reply(200, [EmptyObj EXCEPT !.getActiveNews = JNull]) }

NoOutcome == [t |-> "none"]
NoResponse == [t |-> "none"]
NoRequest == [id |-> 0]

Init ==
  /\ store \in Stores
  /\ inflight = {}
  /\ newsData = JNull
  /\ loading = FALSE
  /\ error = Null
  /\ lastUpdated = Null
  /\ loadingMessage = LOADING_MESSAGES[1]
  /\ isStaticMode = TRUE
  /\ imgSrc = Null
  /\ timer = NoTimer
  /\ phase = "initial"
  /\ issued = 0
  /\ userTriggers = 0
  /\ last = [event |-> "none", req |-> NoRequest, before |-> JNull]
  /\ lastRead = NoOutcome

\* a fetch that starts without setError(null)
Begin_KeepsError(kind, event) ==
  /\ issued < MaxRequests
  /\ loading' = TRUE
  /\ error' = error
  /\ loadingMessage' = LOADING_MESSAGES[1]
  /\ timer' = RotateEffect(loading, TRUE, timer)
  /\ issued' = issued + 1
  /\ inflight' = inflight \cup
       {[id |-> issued + 1, kind |-> kind, stage |-> "sent", attempts |-> 0,
         db |-> NoOutcome, response |-> NoResponse]}
  /\ last' = [event |-> event, req |-> NoRequest, before |-> JNull]
  /\ imgSrc' = Null
  /\ UNCHANGED <<store, newsData, lastUpdated, isStaticMode, lastRead>>

\* a fetch that starts without setLoading(true)
Begin_NoLoading(kind, event) ==
  /\ issued < MaxRequests
  /\ loading' = loading
  /\ error' = Null
  /\ loadingMessage' = LOADING_MESSAGES[1]
  /\ timer' = timer
  /\ issued' = issued + 1
  /\ inflight' = inflight \cup
       {[id |-> issued + 1, kind |-> kind, stage |-> "sent", attempts |-> 0,
         db |-> NoOutcome, response |-> NoResponse]}
  /\ last' = [event |-> event, req |-> NoRequest, before |-> JNull]
  /\ imgSrc' = Null
  /\ UNCHANGED <<store, newsData, lastUpdated, isStaticMode, lastRead>>

\* the lines of fetchStaticNews / fetchDynamicNews up to the fetch() call
Begin(kind, event) ==
  /\ issued < MaxRequests
  /\ loading' = TRUE
  /\ error' = Null
  /\ loadingMessage' = LOADING_MESSAGES[1]
  /\ timer' = RotateEffect(loading, TRUE, timer)
  /\ issued' = issued + 1
  /\ inflight' = inflight \cup
       {[id |-> issued + 1, kind |-> kind, stage |-> "sent", attempts |-> 0,
         db |-> NoOutcome, response |-> NoResponse]}
  /\ last' = [event |-> event, req |-> NoRequest, before |-> JNull]
  /\ imgSrc' = Null
  /\ UNCHANGED <<store, newsData, lastUpdated, isStaticMode, lastRead>>

\* useEffect(() => { fetchStaticNews(); }, [])
Mount ==
  /\ phase = "initial"
  /\ phase' = "mounted"
  /\ Begin("static", "mount")
  /\ UNCHANGED userTriggers

\* a button that is not disabled while loading
ClickStatic_NoGuard ==
  /\ phase = "mounted"
  /\ Begin("static", "click")
  /\ userTriggers' = userTriggers + 1
  /\ UNCHANGED phase

\* a button that stays disabled while an error is shown
ClickStatic_BlockedByError ==
  /\ phase = "mounted"
  /\ ~loading
  /\ error = Null
  /\ Begin("static", "click")
  /\ userTriggers' = userTriggers + 1
  /\ UNCHANGED phase

\* onClick={fetchStaticNews} on a button that is disabled={loading}
ClickStatic ==
  /\ phase = "mounted"
  /\ ~loading
  /\ Begin("static", "click")
  /\ userTriggers' = userTriggers + 1
  /\ UNCHANGED phase

\* a button that is not disabled while loading
ClickDynamic_NoGuard ==
  /\ phase = "mounted"
  /\ Begin("dynamic", "click")
  /\ userTriggers' = userTriggers + 1
  /\ UNCHANGED phase

\* onClick={fetchDynamicNews} on a button that is disabled={loading}
ClickDynamic ==
  /\ phase = "mounted"
  /\ ~loading
  /\ Begin("dynamic", "click")
  /\ userTriggers' = userTriggers + 1
  /\ UNCHANGED phase

\* a callback that wraps one entry too early
Tick_WrapsEarly ==
  /\ \E i \in DOMAIN timer :
       LET next == (timer[i] + 1) % (Len(LOADING_MESSAGES) - 1)
       IN /\ timer' = [timer EXCEPT ![i] = next]
          /\ loadingMessage' = LOADING_MESSAGES[next + 1]
  /\ UNCHANGED <<store, inflight, newsData, loading, error, lastUpdated, isStaticMode,
                 imgSrc, phase, issued, userTriggers, last, lastRead>>

\* the interval callback, every 2.5 s while the interval exists
Tick ==
  /\ \E i \in DOMAIN timer :
       LET next == (timer[i] + 1) % Len(LOADING_MESSAGES)
       IN /\ timer' = [timer EXCEPT ![i] = next]
          /\ loadingMessage' = LOADING_MESSAGES[next + 1]
  /\ UNCHANGED <<store, inflight, newsData, loading, error, lastUpdated, isStaticMode,
                 imgSrc, phase, issued, userTriggers, last, lastRead>>

\* a catch block that starts the fetch again
Settle_Retry(r, resp, now) ==
  LET out == FetchOutcome(r.kind, resp)
      done == [r EXCEPT !.response = resp, !.stage = "settled"]
      again == [id |-> issued + 1, kind |-> r.kind, stage |-> "sent", attempts |-> 0,
                db |-> NoOutcome, response |-> NoResponse]
      retry == out.t = "throw" /\ issued < MaxRequests
  IN /\ inflight' = IF retry /\ phase = "mounted"
                    THEN (inflight \ {r}) \cup {again} ELSE inflight \ {r}
     /\ issued' = IF retry /\ phase = "mounted" THEN issued + 1 ELSE issued
     /\ IF phase = "mounted"
        THEN /\ newsData' = IF out.t = "ok" THEN out.value ELSE newsData
             /\ lastUpdated' = IF out.t = "ok" THEN ToLocaleString(now) ELSE lastUpdated
             /\ isStaticMode' = IF out.t = "ok" THEN r.kind = "static" ELSE isStaticMode
             /\ error' = IF out.t = "throw" THEN out.message ELSE error
             /\ loading' = retry
             /\ imgSrc' = RenderedImage(retry, newsData')
             /\ timer' = RotateEffect(loading, retry, timer)
             /\ last' = [event |-> "settle", req |-> done, before |-> newsData]
        ELSE /\ UNCHANGED <<newsData, lastUpdated, isStaticMode, imgSrc, error, loading, timer>>
             /\ last' = [event |-> "ignored", req |-> done, before |-> JNull]
     /\ UNCHANGED <<store, loadingMessage, phase, userTriggers, lastRead>>

\* setLoading(false) at the end of the try block instead of in finally
Settle_NoFinally(r, resp, now) ==
  LET out == FetchOutcome(r.kind, resp)
      done == [r EXCEPT !.response = resp, !.stage = "settled"]
  IN /\ inflight' = inflight \ {r}
     /\ IF phase = "mounted"
        THEN /\ newsData' = IF out.t = "ok" THEN out.value ELSE newsData
             /\ lastUpdated' = IF out.t = "ok" THEN ToLocaleString(now) ELSE lastUpdated
             /\ isStaticMode' = IF out.t = "ok" THEN r.kind = "static" ELSE isStaticMode
             /\ error' = IF out.t = "throw" THEN out.message ELSE error
             /\ loading' = (out.t = "throw")
             /\ imgSrc' = RenderedImage(out.t = "throw", newsData')
             /\ timer' = RotateEffect(loading, out.t = "throw", timer)
             /\ last' = [event |-> "settle", req |-> done, before |-> newsData]
        ELSE /\ UNCHANGED <<newsData, lastUpdated, isStaticMode, imgSrc, error, loading, timer>>
             /\ last' = [event |-> "ignored", req |-> done, before |-> JNull]
     /\ UNCHANGED <<store, loadingMessage, phase, issued, userTriggers, lastRead>>

\* a catch block that drops the entry on display
Settle_ClearsOnError(r, resp, now) ==
  LET out == FetchOutcome(r.kind, resp)
      done == [r EXCEPT !.response = resp, !.stage = "settled"]
  IN /\ inflight' = inflight \ {r}
     /\ IF phase = "mounted"
        THEN /\ newsData' = IF out.t = "ok" THEN out.value ELSE JNull
             /\ lastUpdated' = IF out.t = "ok" THEN ToLocaleString(now) ELSE Null
             /\ isStaticMode' = IF out.t = "ok" THEN r.kind = "static" ELSE isStaticMode
             /\ error' = IF out.t = "throw" THEN out.message ELSE error
             /\ loading' = FALSE
             /\ imgSrc' = RenderedImage(FALSE, newsData')
             /\ timer' = RotateEffect(loading, FALSE, timer)
             /\ last' = [event |-> "settle", req |-> done, before |-> newsData]
        ELSE /\ UNCHANGED <<newsData, lastUpdated, isStaticMode, imgSrc, error, loading, timer>>
             /\ last' = [event |-> "ignored", req |-> done, before |-> JNull]
     /\ UNCHANGED <<store, loadingMessage, phase, issued, userTriggers, lastRead>>

\* a success that leaves the mode flag as it was
Settle_KeepsMode(r, resp, now) ==
  LET out == FetchOutcome(r.kind, resp)
      done == [r EXCEPT !.response = resp, !.stage = "settled"]
  IN /\ inflight' = inflight \ {r}
     /\ IF phase = "mounted"
        THEN /\ newsData' = IF out.t = "ok" THEN out.value ELSE newsData
             /\ lastUpdated' = IF out.t = "ok" THEN ToLocaleString(now) ELSE lastUpdated
             /\ isStaticMode' = isStaticMode
             /\ error' = IF out.t = "throw" THEN out.message ELSE error
             /\ loading' = FALSE
             /\ imgSrc' = RenderedImage(FALSE, newsData')
             /\ timer' = RotateEffect(loading, FALSE, timer)
             /\ last' = [event |-> "settle", req |-> done, before |-> newsData]
        ELSE /\ UNCHANGED <<newsData, lastUpdated, isStaticMode, imgSrc, error, loading, timer>>
             /\ last' = [event |-> "ignored", req |-> done, before |-> JNull]
     /\ UNCHANGED <<store, loadingMessage, phase, issued, userTriggers, lastRead>>

\* fetchStaticNews / fetchDynamicNews from the settling of fetch() to the end of
\* finally; the state setters of an unmounted component do nothing
Settle(r, resp, now) ==
  LET out == FetchOutcome(r.kind, resp)
      done == [r EXCEPT !.response = resp, !.stage = "settled"]
  IN /\ inflight' = inflight \ {r}
     /\ IF phase = "mounted"
        THEN /\ newsData' = IF out.t = "ok" THEN out.value ELSE newsData
             /\ lastUpdated' = IF out.t = "ok" THEN ToLocaleString(now) ELSE lastUpdated
             /\ isStaticMode' = IF out.t = "ok" THEN r.kind = "static" ELSE isStaticMode
             /\ error' = IF out.t = "throw" THEN out.message ELSE error
             /\ loading' = FALSE
             /\ imgSrc' = RenderedImage(FALSE, newsData')
             /\ timer' = RotateEffect(loading, FALSE, timer)
             /\ last' = [event |-> "settle", req |-> done, before |-> newsData]
        ELSE /\ UNCHANGED <<newsData, lastUpdated, isStaticMode, imgSrc, error, loading, timer>>
             /\ last' = [event |-> "ignored", req |-> done, before |-> JNull]
     /\ UNCHANGED <<store, loadingMessage, phase, issued, userTriggers, lastRead>>

\* the response of this repository's router reaches the client
SettleServed(r) ==
  /\ r.stage = "responded"
  /\ \E now \in 1..MaxClock : Settle(r, r.response, now)

\* the webhook, or another deployment behind the static URL, answers; or the
\* fetch fails, which it can do whether or not the service has seen the request
SettleExternal(r) ==
  \E resp \in ExternalResponses, now \in 1..MaxClock :
    /\ r.stage = "sent" \/ resp.t = "reject"
    /\ Settle(r, resp, now)

\* a teardown that leaves the interval running
Unmount_NoCleanup ==
  /\ phase = "mounted"
  /\ phase' = "unmounted"
  /\ timer' = timer
  /\ imgSrc' = Null
  /\ last' = [event |-> "unmount", req |-> NoRequest, before |-> JNull]
  /\ UNCHANGED <<store, inflight, newsData, loading, error, lastUpdated, loadingMessage,
                 isStaticMode, issued, userTriggers, lastRead>>

\* an onError handler that drops the entry whose image failed
ImageError_ClearsEntry ==
  /\ phase = "mounted"
  /\ imgSrc # Null
  /\ imgSrc # PLACEHOLDER_SRC
  /\ imgSrc' = PLACEHOLDER_SRC
  /\ newsData' = JNull
  /\ error' = "Image failed to load"
  /\ UNCHANGED <<store, inflight, loading, lastUpdated, loadingMessage,
                 isStaticMode, timer, phase, issued, userTriggers, last, lastRead>>

\* onError of the <img>: the browser could not load newsData.imageUrl (the
\* placeholder is a data URI and does not fail)
ImageError ==
  /\ phase = "mounted"
  /\ imgSrc # Null
  /\ imgSrc # PLACEHOLDER_SRC
  /\ imgSrc' = PLACEHOLDER_SRC
  /\ UNCHANGED <<store, inflight, newsData, loading, error, lastUpdated, loadingMessage,
                 isStaticMode, timer, phase, issued, userTriggers, last, lastRead>>

\* the component is torn down: the cleanup of the effect run that started an
\* interval (loading was true) clears it
Unmount ==
  /\ phase = "mounted"
  /\ phase' = "unmounted"
  /\ timer' = IF loading THEN ClearInterval(timer) ELSE timer
  /\ imgSrc' = Null
  /\ last' = [event |-> "unmount", req |-> NoRequest, before |-> JNull]
  /\ UNCHANGED <<store, inflight, newsData, loading, error, lastUpdated, loadingMessage,
                 isStaticMode, issued, userTriggers, lastRead>>

\* ----------------------------------------------------------- the service
\* a read that marks what it has served as no longer active
Query_Deactivate(r) ==
  /\ r.kind = "static"
  /\ r.stage = "sent"
  /\ \E o \in GetActiveNewsOutcomes(store) :
       inflight' = (inflight \ {r}) \cup
         {[r EXCEPT !.stage = "queried", !.db = o, !.attempts = r.attempts + 1]}
  /\ store' = {[row EXCEPT !.is_active = FALSE] : row \in store}
  /\ UNCHANGED <<newsData, loading, error, lastUpdated, loadingMessage,
                 isStaticMode, imgSrc, timer, phase, issued, userTriggers, last>>

\* mainRouter.post('/api/v1/news'): `await db.getActiveNews()` settles
Query(r) ==
  /\ r.kind = "static"
  /\ r.stage = "sent"
  /\ \E o \in GetActiveNewsOutcomes(store) :
       inflight' = (inflight \ {r}) \cup
         {[r EXCEPT !.stage = "queried", !.db = o, !.attempts = r.attempts + 1]}
  /\ UNCHANGED <<store, newsData, loading, error, lastUpdated, loadingMessage,
                 isStaticMode, imgSrc, timer, phase, issued, userTriggers, last>>

\* a handler that queries again after a fault instead of answering
Respond_Retry(r) ==
  /\ r.stage = "queried"
  /\ inflight' = (inflight \ {r}) \cup
       {IF r.db.t = "throw" /\ r.attempts < 2
        THEN [r EXCEPT !.stage = "sent"]
        ELSE [r EXCEPT !.stage = "responded", !.response = RouterResponse(r.db)]}
  /\ UNCHANGED <<store, newsData, loading, error, lastUpdated, loadingMessage,
                 isStaticMode, imgSrc, timer, phase, issued, userTriggers, last, lastRead>>

\* mainRouter.post('/api/v1/news'): res.json(...) in the try or the catch branch
Respond(r) ==
  /\ r.stage = "queried"
  /\ inflight' = (inflight \ {r}) \cup
       {[r EXCEPT !.stage = "responded", !.response = RouterResponse(r.db)]}
  /\ UNCHANGED <<store, newsData, loading, error, lastUpdated, loadingMessage,
                 isStaticMode, imgSrc, timer, phase, issued, userTriggers, last, lastRead>>

\* the external pipeline inserts rows and flips is_active
Write ==
  /\ \E s \in Stores : s # store /\ store' = s
  /\ UNCHANGED <<inflight, newsData, loading, error, lastUpdated, loadingMessage,
                 isStaticMode, imgSrc, timer, phase, issued, userTriggers, last>>

\* the client with the service behind the static URL: reads are not recorded
ServerQuery(r) == Query(r) /\ UNCHANGED lastRead
ExternalWrite == Write /\ UNCHANGED lastRead

Next ==
  \/ Mount
  \/ ClickStatic
  \/ ClickDynamic
  \/ Tick
  \/ \E r \in inflight : SettleServed(r)
  \/ \E r \in inflight : SettleExternal(r)
  \/ Unmount
  \/ ImageError
  \/ \E r \in inflight : ServerQuery(r)
  \/ \E r \in inflight : Respond(r)
  \/ ExternalWrite

Spec == Init /\ [][Next]_vars

\* the network delivers: a request in flight is in the end settled, by a
\* response or by a failure
Delivery == \E r \in inflight : SettleServed(r) \/ SettleExternal(r)

\* the client and the service while nothing writes to the store
LiveNext ==
  \/ Mount
  \/ ClickStatic
  \/ ClickDynamic
  \/ Tick
  \/ Delivery
  \/ Unmount
  \/ \E r \in inflight : ServerQuery(r)
  \/ \E r \in inflight : Respond(r)

FairSpec == Init /\ [][LiveNext]_vars /\ WF_vars(Delivery)

\* ------------------------------------------------- the service on its own
\* any HTTP client posts to /api/v1/news (the body is ignored)
Post ==
  /\ issued < MaxRequests
  /\ Cardinality(inflight) < MaxConcurrent
  /\ issued' = issued + 1
  /\ inflight' = inflight \cup
       {[id |-> issued + 1, kind |-> "static", stage |-> "sent", attempts |-> 0,
         db |-> NoOutcome, response |-> NoResponse]}
  /\ UNCHANGED <<store, newsData, loading, error, lastUpdated, loadingMessage,
                 isStaticMode, imgSrc, timer, phase, userTriggers, last, lastRead>>

\* the response has left the service
Answered(r) ==
  /\ r.stage = "responded"
  /\ inflight' = inflight \ {r}
  /\ UNCHANGED <<store, newsData, loading, error, lastUpdated, loadingMessage,
                 isStaticMode, imgSrc, timer, phase, issued, userTriggers, last, lastRead>>

\* a query, with the payload it resolved with recorded
ObservedQuery(r) ==
  /\ Query(r)
  /\ \E q \in inflight' \ inflight :
       lastRead' = IF q.db.t = "ok" THEN q.db ELSE lastRead

\* a write, after which no payload has been read from the store as it is
ObservedWrite == Write /\ lastRead' = NoOutcome

ServerNext ==
  \/ Post
  \/ \E r \in inflight : ObservedQuery(r)
  \/ \E r \in inflight : Respond(r)
  \/ \E r \in inflight : Answered(r)
  \/ ObservedWrite

ServerSpec == Init /\ [][ServerNext]_vars

\* ================================================================ claims
\* the client's step that has just settled a request, and what it settled with
Settled == last.event = "settle"
SettledStatic == Settled /\ last.req.kind = "static"
SettledDynamic == Settled /\ last.req.kind = "dynamic"
SettledJson == Settled /\ last.req.response.t = "response"
                       /\ last.req.response.status = 200
                       /\ last.req.response.body.t = "obj"

\* the rows of the store whose is_active flag is set
ActiveNow == {row \in store : row.is_active}

\* C1: on a store with no active row a query that does not fault resolves with
\* null, and the router answers a null result with status 200 and the payload
\* { getActiveNews: null }, with no error field (ServerSpec).
C1_NoActiveRowIsEmptySuccess ==
  [][\A r \in inflight : \A q \in inflight' :
       q.id = r.id =>
         /\ (r.stage = "sent" /\ q.stage = "queried" /\ q.db.t = "ok"
               /\ ActiveNow = {})
            => q.db.value = JNull
         /\ (r.stage = "queried" /\ q.stage = "responded" /\ r.db = Ok(JNull))
            => /\ q.response.t = "response"
               /\ q.response.status >= 200 /\ q.response.status <= 299
               /\ q.response.body.t = "obj"
               /\ q.response.body.getActiveNews = JNull
               /\ q.response.body.error = Undef]_vars

C1_Witness ==
  \E r \in inflight :
    /\ r.stage = "responded" /\ r.db = Ok(JNull)
    /\ store # {} /\ ActiveNow = {}
    /\ r.response.status = 200 /\ r.response.body.getActiveNews = JNull

\* C2: on a store with exactly one active row a query that does not fault
\* resolves with that row's headline, description and image_url, whatever
\* inactive rows there are, and the router answers with status 200 and that
\* projection under getActiveNews (ServerSpec).
C2_SingleActiveRowIsReturned ==
  [][\A r \in inflight : \A q \in inflight' :
       q.id = r.id =>
         /\ (r.stage = "sent" /\ q.stage = "queried" /\ q.db.t = "ok"
               /\ Cardinality(ActiveNow) = 1)
            => \E row \in store :
                 /\ row.is_active
                 /\ q.db.value.t = "obj"
                 /\ q.db.value.headline = row.headline
                 /\ q.db.value.description = row.description
                 /\ q.db.value.image_url = row.image_url
                 /\ q.db.value.imageUrl = Undef
         /\ (r.stage = "queried" /\ q.stage = "responded" /\ r.db.t = "ok")
            => /\ q.response.status = 200
               /\ q.response.body.getActiveNews = r.db.value]_vars

C2_Witness ==
  \E r \in inflight : \E row \in store :
    /\ r.stage = "responded" /\ r.db.t = "ok"
    /\ ActiveNow = {row}
    /\ \E other \in store : ~other.is_active /\ other.headline # row.headline
    /\ r.response.body.getActiveNews.t = "obj"
    /\ r.response.body.getActiveNews.headline = row.headline
    /\ r.response.body.getActiveNews.image_url = row.image_url

\* C3: a request whose query faulted is answered with status 500 and the body
\* { error: <the fault's message> }, and no request is ever queried more than
\* once (ServerSpec).
C3_FaultIs500QueriedOnce ==
  \A r \in inflight :
    /\ r.attempts <= 1
    /\ r.stage \in {"queried", "responded"} => r.attempts = 1
    /\ (r.stage = "responded" /\ r.db.t = "throw")
       => /\ r.response.t = "response"
          /\ r.response.status = 500
          /\ r.response.body.t = "obj"
          /\ r.response.body.error = r.db.message
          /\ r.response.body.getActiveNews.t = "undefined"

C3_Witness ==
  \E r \in inflight :
    /\ r.stage = "responded" /\ r.db.t = "throw" /\ r.db.message = "db down"
    /\ r.response.status = 500 /\ r.response.body.error = "db down"
    /\ r.attempts = 1

\* C10 as stated: between two writes every query that does not fault resolves
\* with the payload the one before it resolved with, however many rows are
\* active (ServerSpec).
C10_IdempotentAnyStore ==
  [][(lastRead # NoOutcome /\ lastRead' # NoOutcome) => lastRead' = lastRead]_vars

\* C10 as amended: the same, on a store with at most one active row.
C10_IdempotentAtMostOneActive ==
  [][(lastRead # NoOutcome /\ lastRead' # NoOutcome
        /\ Cardinality(ActiveNow) <= 1)
     => lastRead' = lastRead]_vars

C10_Witness ==
  \E r1 \in inflight : \E r2 \in inflight :
    /\ r1.id # r2.id
    /\ r1.db.t = "ok" /\ r1.db.value.t = "obj"
    /\ r2.db = r1.db /\ lastRead = r1.db
    /\ Cardinality(ActiveNow) = 1 /\ Cardinality(store) > 1

\* C4 as stated: a fetch settled with HTTP 500 and the body {"error":"db down"}
\* leaves error = "db down", loading false and no rotation timer.
C4_ErrorIsBodyErrorField ==
  (Settled /\ last.req.response = Reply(500, [EmptyObj EXCEPT !.error = "db down"]))
  => (error = "db down" /\ ~loading /\ timer = NoTimer)

\* C5 as stated: a static fetch settled with {getActiveNews: {headline: H,
\* description: D, image_url: U}} or with the bare {headline: H, description: D,
\* imageUrl: U} leaves newsData = {headline: H, description: D, imageUrl: U},
\* for all strings H, D, U.
C5_ShapeAgnosticAnyUrl ==
  (SettledStatic /\ SettledJson) =>
    LET b == last.req.response.body
        g == b.getActiveNews
    IN /\ (g.t = "obj" /\ g.headline # Undef /\ g.description # Undef
             /\ g.image_url # Undef /\ g.imageUrl = Undef)
          => newsData = View(g.headline, g.description, g.image_url)
       /\ (g.t = "undefined" /\ b.headline # Undef /\ b.description # Undef
             /\ b.imageUrl # Undef /\ b.image_url = Undef)
          => newsData = View(b.headline, b.description, b.imageUrl)

\* C5 as amended: the same for all H, D and every non-empty U; for U = "" the
\* enveloped shape leaves imageUrl undefined and the bare shape leaves it "".
C5_ShapeAgnosticNonEmptyUrl ==
  (SettledStatic /\ SettledJson) =>
    LET b == last.req.response.body
        g == b.getActiveNews
    IN /\ (g.t = "obj" /\ g.headline # Undef /\ g.description # Undef
             /\ g.image_url # Undef /\ g.imageUrl = Undef)
          => newsData = View(g.headline, g.description,
                             IF g.image_url = "" THEN Undef ELSE g.image_url)
       /\ (g.t = "undefined" /\ b.headline # Undef /\ b.description # Undef
             /\ b.imageUrl # Undef /\ b.image_url = Undef)
          => newsData = View(b.headline, b.description, b.imageUrl)

C5_Witness ==
  /\ SettledStatic
  /\ last.req.response = Reply(200, Item("X", "Y", Undef, "Z.png"))
  /\ newsData = View("X", "Y", "Z.png")

\* C6 as stated: a static fetch settled with status 200 and an empty payload,
\* the bare body null or getActiveNews null, leaves error = null and the
\* headline placeholder on display.
C6_EmptyPayloadIsPlaceholder ==
  (SettledStatic /\ last.req.response.t = "response" /\ last.req.response.status = 200
     /\ (\/ last.req.response.body = JNull
         \/ /\ last.req.response.body.t = "obj"
            /\ last.req.response.body.getActiveNews = JNull))
  => (error = Null /\ (newsData = JNull \/ ~TruthyLeaf(newsData.headline)))

\* C7: before the mount effect nothing is issued; the mount effect sets loading
\* and issues one static request; from then on the fetch calls made are one
\* more than the clicks; a fetch that failed leaves the client not loading,
\* with an error and with no request in flight.
C7_MountFetchesOnceNoRetry ==
  /\ phase = "initial" => (issued = 0 /\ inflight = {} /\ ~loading)
  /\ phase # "initial" => issued = 1 + userTriggers
  /\ last.event = "mount"
     => (loading /\ issued = 1 /\ \E r \in inflight : inflight = {r} /\ r.kind = "static")
  /\ (Settled /\ (\/ last.req.response.t = "reject"
                  \/ last.req.response.status < 200
                  \/ last.req.response.status > 299))
     => (error # Null /\ ~loading /\ inflight = {})

C7_Witness ==
  /\ Settled /\ last.req.id = 1 /\ last.req.response.t = "reject"
  /\ error = FetchFailedMessage /\ ~loading /\ inflight = {}
  /\ issued = 1 /\ userTriggers = 0

\* C8 as stated: a static fetch settled with the router's 200 answer to a query
\* that found the active row {headline: X, description: Y, image_url: Z} leaves
\* newsData = {headline: X, description: Y, imageUrl: Z}, isStaticMode = true,
\* loading = false, error = null and lastUpdated set.
C8_StaticLoadedAnyUrl ==
  (SettledStatic /\ SettledJson /\ last.req.db.t = "ok" /\ last.req.db.value.t = "obj")
  => LET v == last.req.db.value
     IN /\ newsData = View(v.headline, v.description, v.image_url)
        /\ isStaticMode /\ ~loading /\ error = Null /\ lastUpdated # Null

\* C8 as amended: the same when Z is not empty; when Z is "" imageUrl is undefined.
C8_StaticLoadedNonEmptyUrl ==
  (SettledStatic /\ SettledJson /\ last.req.db.t = "ok" /\ last.req.db.value.t = "obj")
  => LET v == last.req.db.value
     IN /\ newsData = View(v.headline, v.description,
                           IF v.image_url = "" THEN Undef ELSE v.image_url)
        /\ isStaticMode /\ ~loading /\ error = Null /\ lastUpdated # Null

C8_Witness ==
  /\ SettledStatic /\ SettledJson
  /\ last.req.db.t = "ok" /\ last.req.db.value.t = "obj"
  /\ last.req.db.value.headline = "X" /\ last.req.db.value.image_url = "Z.png"
  /\ newsData = View("X", "Y", "Z.png")
  /\ isStaticMode /\ ~loading /\ error = Null /\ lastUpdated # Null

\* C9: a dynamic fetch settled with status 200 and {headline: A, description: B,
\* imageUrl: C}, any of the three possibly missing, leaves newsData exactly
\* {headline: A, description: B, imageUrl: C} and isStaticMode = false.
C9_DynamicReplacesEntry ==
  (SettledDynamic /\ SettledJson /\ last.req.response.body.image_url = Undef)
  => /\ newsData = View(last.req.response.body.headline,
                        last.req.response.body.description,
                        last.req.response.body.imageUrl)
     /\ ~isStaticMode

C9_Witness ==
  /\ SettledDynamic
  /\ last.req.response = Reply(200, Item("A", Undef, Undef, Undef))
  /\ last.before = View("X", "Y", "Z.png")
  /\ newsData = View("A", Undef, Undef)
  /\ ~isStaticMode

\* C11: GetActiveNews is a pure read. Every step of a request through the
\* service (the query settling, with a payload or with a fault, and the answer
\* being sent) leaves every row of the store, is_active flags included, as it
\* was; so such a step never takes a store with at most one active row to a
\* store with more.
C11_ReadLeavesEveryRowUnchanged ==
  [][(\E r \in inflight : \E q \in inflight' : q.id = r.id /\ q.stage # r.stage)
       => /\ store' = store
          /\ (Cardinality(ActiveNow) <= 1
                => Cardinality({row \in store' : row.is_active}) <= 1)]_vars

\* one request answered from a payload and one answered from a fault, over a
\* store that holds a single active row among others
C11_Witness ==
  /\ Cardinality(ActiveNow) = 1
  /\ Cardinality(store) > 1
  /\ \E r \in inflight : r.stage = "responded" /\ r.db.t = "ok"
  /\ \E r \in inflight : r.stage = "responded" /\ r.db.t = "throw"

\* C12: a fetch of either kind that settles with a status outside 200..299 or
\* with a transport failure leaves one error string: "HTTP error! status: N"
\* with N the status of the response, or the message of the exception fetch()
\* rejected with; loading is false and no request is in flight (no retry).
C12_FailureShowsStatusOrMessage ==
  /\ (Settled /\ last.req.response.t = "response"
        /\ (last.req.response.status < 200 \/ last.req.response.status > 299))
     => /\ error = "HTTP error! status: " \o ToString(last.req.response.status)
        /\ ~loading /\ inflight = {}
        /\ issued = 1 + userTriggers
  /\ (Settled /\ last.req.response.t = "reject")
     => /\ error = last.req.response.message
        /\ ~loading /\ inflight = {}
        /\ issued = 1 + userTriggers

\* the webhook answered 404 to a dynamic fetch the user started
C12_Witness ==
  /\ SettledDynamic
  /\ last.req.response.t = "response" /\ last.req.response.status = 404
  /\ error = "HTTP error! status: 404"
  /\ userTriggers = 1 /\ issued = 2 /\ inflight = {}

\* the mounted client shows an error
Errored == phase = "mounted" /\ error # Null

\* C13: no error is fatal. In every state where the mounted client shows an
\* error, loading is false and both triggers can be taken (as long as the
\* model's request budget lasts); a trigger clears the error, and from the state
\* it leads to (the request sent, not yet seen by a server) a step exists that
\* ends with an entry shown, no error and loading false. So from every Errored
\* state a Loaded state can be reached.
C13_NoErrorIsFatal ==
  /\ Errored
     => /\ ~loading
        /\ inflight = {}
        /\ issued < MaxRequests => (ENABLED ClickStatic /\ ENABLED ClickDynamic)
  /\ (last.event = "click" /\ \A r \in inflight : r.stage = "sent")
     => /\ error = Null
        /\ loading
        /\ ENABLED (\E r \in inflight :
                      /\ SettleExternal(r)
                      /\ error' = Null /\ ~loading' /\ newsData' # JNull)

\* the fetch on mount failed, the user started a dynamic fetch, and it loaded
C13_Witness ==
  /\ SettledDynamic
  /\ last.req.id = 2
  /\ last.before = JNull
  /\ newsData # JNull
  /\ error = Null
  /\ ~loading

\* C14: in every reachable state, while a request of either kind is in flight
\* loading is true. (With both buttons disabled while loading, no reachable
\* state of the mounted client has more than one request in flight.)
C14_InFlightIsLoading ==
  inflight # {} => loading

\* a static request the service has already answered is still in flight, the
\* message has rotated, and the client is still loading
C14_Witness ==
  /\ phase = "mounted"
  /\ loading
  /\ \E r \in inflight : r.stage = "responded"
  /\ loadingMessage = LOADING_MESSAGES[3]

\* C16 as stated: the UI allows a new trigger while an operation is in flight:
\* in the Loading state of the mounted client both triggers can be taken (as
\* long as the model's request budget lasts).
C16_TriggerEnabledWhileLoading ==
  (phase = "mounted" /\ loading /\ issued < MaxRequests)
  => (ENABLED ClickStatic /\ ENABLED ClickDynamic)

\* C16, amended: the UI does not allow a new trigger while an operation is in
\* flight: while loading is true neither trigger can be taken.
C16_TriggersDisabledWhileLoading ==
  (phase = "mounted" /\ loading)
  => (~ENABLED ClickStatic /\ ~ENABLED ClickDynamic)

\* a request is in flight, the request budget is not used up, and the dynamic
\* trigger cannot be taken
C16_Witness ==
  /\ phase = "mounted"
  /\ loading
  /\ inflight # {}
  /\ issued < MaxRequests
  /\ ~ENABLED ClickDynamic

\* C17 as stated: at the step where the in-flight operation resolves, with a
\* success or a failure, the rotation stops and loadingMessage is the first
\* message again.
C17_ResolveStopsAndResetsMessage ==
  Settled => (timer = NoTimer /\ loadingMessage = LOADING_MESSAGES[1])

\* C17, amended: the step where the in-flight operation resolves, with a success
\* or a failure, stops the rotation and leaves loadingMessage as the last tick
\* set it; the message is reset to the first one by the step that starts the
\* next fetch. A tick changes neither the requests in flight nor loading.
C17_ResolveStopsStartResets ==
  [][/\ (phase = "mounted" /\ inflight' # inflight /\ inflight' \subseteq inflight)
        => /\ timer' = NoTimer
           /\ ~loading'
           /\ loadingMessage' = loadingMessage
     /\ issued' # issued
        => (loadingMessage' = LOADING_MESSAGES[1] /\ timer' = <<0>>)
     /\ (timer # NoTimer /\ timer' # NoTimer /\ timer' # timer)
        => (inflight' = inflight /\ loading' = loading /\ error' = error
            /\ newsData' = newsData)]_vars

\* a fetch that failed after two ticks: no interval is left and the third
\* message is still in loadingMessage
C17_Witness ==
  /\ Settled
  /\ error # Null
  /\ ~loading
  /\ timer = NoTimer
  /\ loadingMessage = LOADING_MESSAGES[3]

\* C18: in every reachable state at most one rotation interval is live, and
\* none is live when loading is false or the component is not mounted: the
\* interval is cleared when the fetch succeeds, when it fails and on teardown.
C18_AtMostOneTimerNoneWhenIdle ==
  /\ Len(timer) <= 1
  /\ ~loading => timer = NoTimer
  /\ phase # "mounted" => timer = NoTimer

\* the component was torn down while its second fetch was in flight and the
\* message had rotated: no interval is left
C18_Witness ==
  /\ phase = "unmounted"
  /\ loading
  /\ inflight # {}
  /\ issued = 2
  /\ loadingMessage = LOADING_MESSAGES[2]
  /\ timer = NoTimer

\* the position of the displayed message in LOADING_MESSAGES, counted from 0
MessagePosition(m) == CHOOSE i \in 0..(Len(LOADING_MESSAGES) - 1) : LOADING_MESSAGES[i + 1] = m

\* C19: during one in-flight fetch the displayed message starts at the first
\* entry of LOADING_MESSAGES and each tick moves it to the next entry in order,
\* from the last entry back to the first: the step that starts a fetch sets
\* position 0 and every tick takes position p to (p + 1) mod N, so after k
\* ticks the message is entry k mod N.
C19_TickAdvancesInOrderAndWraps ==
  [][/\ issued' # issued => MessagePosition(loadingMessage') = 0
     /\ (inflight' = inflight /\ loading /\ phase' = phase /\ timer' # timer)
        => /\ MessagePosition(loadingMessage')
                = (MessagePosition(loadingMessage) + 1) % Len(LOADING_MESSAGES)
           /\ loading'
     /\ (inflight' = inflight /\ loading /\ loadingMessage' # loadingMessage)
        => timer' # timer]_vars

\* nine ticks into the fetch on mount: the last entry is displayed
C19_Witness ==
  /\ phase = "mounted"
  /\ loading
  /\ issued = 1
  /\ timer = <<9>>
  /\ loadingMessage = "Almost there..."

SettledItem ==
  IF last.req.kind = "static" /\ last.req.response.body.getActiveNews.t = "obj"
  THEN last.req.response.body.getActiveNews
  ELSE last.req.response.body

\* C21: a fetch that settles with status 200 and a JSON object in which
\* headline, description or both image keys are missing is not an error: an
\* entry is shown whose missing fields are undefined, error is null, loading
\* is false and lastUpdated is set.
C21_MissingFieldsStillLoaded ==
  (SettledJson /\ (\/ SettledItem.headline = Undef
                   \/ SettledItem.description = Undef
                   \/ (SettledItem.image_url = Undef /\ SettledItem.imageUrl = Undef)))
  => /\ newsData # JNull
     /\ newsData.headline = SettledItem.headline
     /\ newsData.description = SettledItem.description
     /\ (SettledItem.image_url = Undef /\ SettledItem.imageUrl = Undef)
          => newsData.imageUrl = Undef
     /\ error = Null
     /\ ~loading
     /\ lastUpdated # Null

\* a static fetch settled with {headline: "A"} and nothing else
C21_Witness ==
  /\ SettledStatic
  /\ last.req.response = Reply(200, Item("A", Undef, Undef, Undef))
  /\ newsData = View("A", Undef, Undef)
  /\ error = Null
  /\ lastUpdated # Null

\* C22: the step in which the <img> fails to load and its src becomes the
\* placeholder changes none of newsData (headline, description, imageUrl),
\* loading, error, lastUpdated and isStaticMode, nor the requests in flight.
C22_ImageErrorChangesNoState ==
  [][(imgSrc # PLACEHOLDER_SRC /\ imgSrc' = PLACEHOLDER_SRC)
       => /\ newsData' = newsData
          /\ loading' = loading
          /\ error' = error
          /\ lastUpdated' = lastUpdated
          /\ isStaticMode' = isStaticMode
          /\ inflight' = inflight]_vars

\* the image of a loaded entry failed: the placeholder is in the <img> and the
\* entry, with its imageUrl, is still displayed without an error
C22_Witness ==
  /\ phase = "mounted"
  /\ imgSrc = PLACEHOLDER_SRC
  /\ newsData = View("X", "Y", "Z.png")
  /\ error = Null
  /\ ~loading
  /\ lastUpdated # Null

C24_SnakeCaseKeyFirst ==
  SettledJson
  => /\ (SettledItem.image_url # Undef /\ SettledItem.image_url # "")
        => newsData.imageUrl = SettledItem.image_url
     /\ (SettledItem.image_url = Undef \/ SettledItem.image_url = "")
        => newsData.imageUrl = SettledItem.imageUrl

\* a static fetch settled with a bare body that carries both keys
C24_Witness ==
  /\ SettledStatic
  /\ last.req.response = Reply(200, Item("A", "B", "Z.png", "C.png"))
  /\ newsData.imageUrl = "Z.png"

\* C25: in every state a step leads to, lastUpdated is null exactly when
\* newsData is null; a request of the mounted client that settles without an
\* error leaves an entry and isStaticMode = (the request was a static fetch);
\* and no other step changes newsData or isStaticMode. So isStaticMode is true
\* exactly when the entry displayed, if any, came from fetchStaticNews.
C25_FlagsAgreeWithEntry ==
  [][/\ (lastUpdated' = Null) <=> (newsData' = JNull)
     /\ \A r \in inflight :
          (phase = "mounted" /\ error' = Null /\ \A q \in inflight' : q.id # r.id)
          => (newsData' # JNull /\ isStaticMode' = (r.kind = "static"))
     /\ (newsData' # newsData \/ isStaticMode' # isStaticMode \/ lastUpdated' # lastUpdated)
        => \E r \in inflight :
             phase = "mounted" /\ error' = Null /\ \A q \in inflight' : q.id # r.id]_vars

\* the entry of the static fetch on mount was replaced by a dynamic one
C25_Witness ==
  /\ SettledDynamic
  /\ last.before = View("X", "Y", "Z.png")
  /\ newsData = View("A", "B", "C.png")
  /\ ~isStaticMode
  /\ lastUpdated # Null
  /\ error = Null

\* C26: a step in which a request of the mounted client settles with a failure
\* (a status outside 200..299, a transport failure, a body that is not JSON)
\* sets error and makes loading false, and leaves newsData, lastUpdated and
\* isStaticMode as they were before: an entry loaded earlier stays on display
\* next to the error.
C26_FailureKeepsEntryAndFlags ==
  [][\A r \in inflight :
       (phase = "mounted" /\ error' # Null /\ \A q \in inflight' : q.id # r.id)
       => /\ newsData' = newsData
          /\ lastUpdated' = lastUpdated
          /\ isStaticMode' = isStaticMode
          /\ ~loading'
          /\ loadingMessage' = loadingMessage]_vars

\* the entry of the fetch on mount is on display next to the error of a
\* dynamic fetch that was answered with a body that is not JSON
C26_Witness ==
  /\ SettledDynamic
  /\ last.req.response = Reply(200, JInvalid)
  /\ error = SyntaxErrorMessage
  /\ newsData = View("X", "Y", "Z.png")
  /\ last.before = newsData
  /\ isStaticMode
  /\ lastUpdated # Null
  /\ ~loading

\* C27: the step that starts a fetch of either kind sets loading to true, error
\* to null and loadingMessage to the first entry, puts the request in flight,
\* and leaves newsData, lastUpdated and isStaticMode as they were; and in every
\* state a step leads to in which the mounted client is loading, error is null.
C27_StartSetsLoadingClearsError ==
  [][/\ issued' # issued
        => /\ loading'
           /\ error' = Null
           /\ loadingMessage' = LOADING_MESSAGES[1]
           /\ Cardinality(inflight') = Cardinality(inflight) + 1
           /\ newsData' = newsData
           /\ lastUpdated' = lastUpdated
           /\ isStaticMode' = isStaticMode
     /\ (phase' = "mounted" /\ loading') => error' = Null]_vars

\* the fetch on mount failed and left no entry; the user started a static
\* fetch, which cleared the error
C27_Witness ==
  /\ last.event = "click"
  /\ issued = 2
  /\ \E r \in inflight : r.id = 2 /\ r.kind = "static" /\ r.stage = "sent"
  /\ loading
  /\ error = Null
  /\ newsData = JNull
  /\ loadingMessage = LOADING_MESSAGES[1]

\* C28: whenever the request that settled last succeeded (and loading is
\* false), error is null: no state shows the entry of a success next to an
\* error message left by another request.
C28_SuccessShowsNoError ==
  (Settled /\ FetchOutcome(last.req.kind, last.req.response).t = "ok")
  => (~loading /\ error = Null /\ newsData # JNull)

\* the fetch on mount failed, and the static fetch the user started next
\* succeeded: the error of the first is gone
C28_Witness ==
  /\ SettledStatic
  /\ last.req.id = 2
  /\ last.before = JNull
  /\ newsData = View("X", "Y", "Z.png")
  /\ ~loading
  /\ error = Null

\* C29: in the mounted client each of the two triggers can be taken exactly
\* when loading is false (as long as the model's request budget lasts), and in
\* every reachable state at most one request is in flight.
C29_TriggersIffIdleOneInFlight ==
  /\ (phase = "mounted" /\ issued < MaxRequests)
     => /\ (ENABLED ClickStatic) <=> ~loading
        /\ (ENABLED ClickDynamic) <=> ~loading
  /\ Cardinality(inflight) <= 1

\* the fetch on mount has settled: both triggers can be taken and nothing is
\* in flight
C29_Witness ==
  /\ phase = "mounted"
  /\ Settled
  /\ issued = 1
  /\ ~loading
  /\ inflight = {}
  /\ ENABLED ClickStatic
  /\ ENABLED ClickDynamic

\* C30: if the network in the end delivers a response or a failure for every
\* request (FairSpec), a mounted client that is loading in the end is not
\* loading any more, or has been torn down; and the client has no timeout of
\* its own: loading turns false only in a step in which a request settles.
C30_LoadingEndsOnlyByDelivery ==
  /\ (phase = "mounted" /\ loading) ~> (~loading \/ phase = "unmounted")
  /\ [][(loading /\ ~loading')
          => \E r \in inflight : \A q \in inflight' : q.id # r.id]_vars

\* the second fetch has been delivered after the message had rotated
C30_Witness ==
  /\ Settled
  /\ last.req.id = 2
  /\ ~loading
  /\ inflight = {}
  /\ loadingMessage = LOADING_MESSAGES[2]

====
